---- MODULE Spec2Model ----
(***************************************************************************)
(* A model of canvas-stored: the LMDB-backed metadata Index (records by    *)
(* id, path aliases "<backend>:<key>" -> id) and the Stored facade that    *)
(* writes blobs to backends and reconciles file:add / file:change /        *)
(* file:unlink notifications into the index.                               *)
(*                                                                         *)
(* JavaScript objects are modelled as functions from field names to        *)
(* values, so that object spread is function override (@@).  A value that  *)
(* may be null/undefined is a sequence of length 0 (absent) or 1.          *)
(***************************************************************************)
EXTENDS Naturals, Sequences, FiniteSets, TLC

VARIABLES
    db,         \* Index.#db: id -> metadata record
    pathDb,     \* Index.#pathDb: "<backend>:<key>" -> id
    backends,   \* BackendManager.#backends: registered names, insertion order
    files,      \* bytes held by the file backends: <<backend, key>> -> content
    now,        \* the last value Date.now() returned
    emitted,    \* notifications the last operation emitted on Stored, in order
    observed,   \* what a listener reads from the index at each emission
    call,       \* the last operation: its name, arguments and return value
    ops,        \* number of operations performed so far
    pending,    \* a Stored.delete suspended at an await: what it has read;
                \* or a Stored.put inside Index.put: the run it completes
    inflight,   \* watcher callbacks awaiting their checksums: event and data
    iter        \* an enumeration of the index in progress: cursor and yields

vars == <<db, pathDb, backends, files, now, emitted, observed, call, ops, pending,
          inflight, iter>>

----------------------------------------------------------------------------
(* Bounds of the model                                                     *)

MaxOps == 4          \* operations in one behaviour
MaxClock == 2        \* readings of Date.now() range over 1..MaxClock
MaxScanFailures == 1 \* checksum computations that fail during one scan
MaxInflight == 2     \* watcher callbacks awaiting their checksums at once
MaxYields == 3       \* records one enumeration yields

\* a value that may be null / undefined
None == <<>>
Some(v) == <<v>>

(* Inputs                                                                  *)

BackendNames == {"be1", "be2"}
Keys == {"a", "b"}
Contents == {"c1", "c2"}      \* a content is named by its sha256 digest
Md5 == [c1 |-> "m1", c2 |-> "m2"]
CustomInputs == { <<>>, [k1 |-> "v1"] }
Blobs == { [kind |-> "buffer", content |-> "c1"],
           [kind |-> "string", content |-> "c2"] }
PutKeys == {Some("a")}
BackendsOptions == { <<>>, <<"be1">>, <<"be1", "be1">> }
DeleteOptions == {None, Some(<<"be1">>)}
WatchAlgorithms == { {"sha256"}, {"md5"} }
Drivers == {"file", "unknown"}
MissingId == "sha256:c0"
\* the order in which a directory listing yields the keys
DirectoryOrder == <<"a", "b", "c1//c1", "c2//c2">>


----------------------------------------------------------------------------
(* Configuration (Stored constructor; the test suite's checksums option)   *)

primaryChecksum == "sha256"
configChecksums == {"sha256", "md5"}
defaultAlgorithms == {"sha256"}

----------------------------------------------------------------------------
(* Pure helpers                                                            *)

\* crypto digest of a content under one algorithm
Digest(algo, content) == IF algo = "sha256" THEN content ELSE Md5[content]

\* checksumBuffer / checksumStream: one digest per requested algorithm
checksumBuffer(content, algorithms) ==
    [algo \in algorithms |-> Digest(algo, content)]

\* formatId: a missing digest is interpolated as the text "undefined"
formatId(checksums, primaryAlgo) ==
    primaryAlgo \o ":" \o
        (IF primaryAlgo \in DOMAIN checksums THEN checksums[primaryAlgo]
                                              ELSE "undefined")

\* #generateKey: hash.slice(0,2) / hash.slice(2,4) / hash; the digests of
\* the model are two characters long, so the middle slice is empty
generateKey(checksums) ==
    checksums[primaryChecksum] \o "//" \o checksums[primaryChecksum]

PathKey(backend, key) == backend \o ":" \o key

Location(backend, key) == [backend |-> backend, key |-> key, synced |-> TRUE]

\* data.length of the blob
SizeOf(content) == IF content = "c1" THEN 1 ELSE 2

\* detectMimeType: the type the magic bytes give (content c1 has them),
\* else the generic binary type
detectMimeType(content) ==
    IF content = "c1" THEN "image/png" ELSE "application/octet-stream"

Range(s) == {s[i] : i \in DOMAIN s}

\* mutant of WithoutPath: the filter compares the key alone
WithoutKey(locs, backend, key) ==
    SelectSeq(locs, LAMBDA l : ~(l.key = key))

\* Array.prototype.filter keeping the locations that are not (backend, key)
WithoutPath(locs, backend, key) ==
    SelectSeq(locs, LAMBDA l : ~(l.backend = backend /\ l.key = key))

\* locations.some(l => l.backend === backend && l.key === key)
HasPath(locs, backend, key) ==
    \E i \in DOMAIN locs : locs[i].backend = backend /\ locs[i].key = key

\* f without the key k
Remove(f, k) == [x \in DOMAIN f \ {k} |-> f[x]]

\* non-decreasing sequences of n clock readings, none before `from`
TimeSeqs(from, n) ==
    {ts \in [1..n -> from..MaxClock] :
        \A i \in 1..n : \A j \in 1..n : i <= j => ts[i] <= ts[j]}

----------------------------------------------------------------------------
(* Index (src/index/index.js).  An index state is [db, pathDb].            *)

\* locations of a stored record, `meta.locations || []`
LocationsOf(meta) == IF "locations" \in DOMAIN meta THEN meta.locations ELSE <<>>

RECURSIVE PutAliases(_, _, _)
PutAliases(p, locs, id) ==
    IF locs = <<>> THEN p
    ELSE LET k == PathKey(Head(locs).backend, Head(locs).key)
         IN PutAliases([x \in DOMAIN p \cup {k} |-> IF x = k THEN id ELSE p[x]],
                       Tail(locs), id)

RECURSIVE RemoveAliases(_, _)
RemoveAliases(p, locs) ==
    IF locs = <<>> THEN p
    ELSE RemoveAliases(Remove(p, PathKey(Head(locs).backend, Head(locs).key)),
                       Tail(locs))

\* mutant of MergedMeta: the fields of the caller's partial record override
\* the id and the timestamps the index assigns
MergedMetaCallerWins(idx, id, metadata, t1, t2) ==
    LET existing == IF id \in DOMAIN idx.db THEN idx.db[id] ELSE [x \in {} |-> 0]
        created  == IF "created" \in DOMAIN existing /\ existing.created # 0
                    THEN existing.created ELSE t2
    IN metadata @@ [id |-> id, modified |-> t1, created |-> created] @@ existing

\* mutant of MergedMeta: the fields of the existing record override those
\* of the caller's partial record
MergedMetaExistingWins(idx, id, metadata, t1, t2) ==
    LET existing == IF id \in DOMAIN idx.db THEN idx.db[id] ELSE [x \in {} |-> 0]
        created  == IF "created" \in DOMAIN existing /\ existing.created # 0
                    THEN existing.created ELSE t2
    IN [id |-> id, modified |-> t1, created |-> created] @@ existing @@ metadata

\* the record Index.put builds: existing fields, overridden by the caller's,
\* overridden by id, modified (first clock reading) and created (the
\* existing value, else the second clock reading)
MergedMeta(idx, id, metadata, t1, t2) ==
    LET existing == IF id \in DOMAIN idx.db THEN idx.db[id] ELSE [x \in {} |-> 0]
        created  == IF "created" \in DOMAIN existing /\ existing.created # 0
                    THEN existing.created ELSE t2
    IN [id |-> id, modified |-> t1, created |-> created] @@ metadata @@ existing

IndexPut(idx, id, metadata, t1, t2) ==
    LET meta == MergedMeta(idx, id, metadata, t1, t2)
    IN [db     |-> [x \in DOMAIN idx.db \cup {id} |->
                        IF x = id THEN meta ELSE idx.db[x]],
        pathDb |-> PutAliases(idx.pathDb, LocationsOf(meta), id)]

\* mutant of IndexGet: the path alias is resolved before the id
IndexGetAliasFirst(idx, idOrPath) ==
    IF idOrPath \in DOMAIN idx.pathDb /\ idx.pathDb[idOrPath] \in DOMAIN idx.db
    THEN Some(idx.db[idx.pathDb[idOrPath]])
    ELSE IF idOrPath \in DOMAIN idx.db THEN Some(idx.db[idOrPath])
         ELSE None

\* Index.get: the record under that id, else the record of the aliased id
IndexGet(idx, idOrPath) ==
    IF idOrPath \in DOMAIN idx.db THEN Some(idx.db[idOrPath])
    ELSE IF idOrPath \in DOMAIN idx.pathDb /\ idx.pathDb[idOrPath] \in DOMAIN idx.db
         THEN Some(idx.db[idx.pathDb[idOrPath]])
         ELSE None

IndexHas(idx, idOrPath) ==
    idOrPath \in DOMAIN idx.db \/ idOrPath \in DOMAIN idx.pathDb

\* mutant of IndexDeleteResult: the answer does not depend on the record
IndexDeleteResultAlways(idx, id) == TRUE

IndexDeleteResult(idx, id) == id \in DOMAIN idx.db

IndexDelete(idx, id) ==
    IF id \notin DOMAIN idx.db THEN idx
    ELSE [db     |-> Remove(idx.db, id),
          pathDb |-> RemoveAliases(idx.pathDb, LocationsOf(idx.db[id]))]

Idx == [db |-> db, pathDb |-> pathDb]

\* Index.put whose storage write number n + 1 throws: the record write is
\* the first write, one alias write per location follows
IndexPutInterrupted(idx, id, metadata, t1, t2, n) ==
    LET meta == MergedMeta(idx, id, metadata, t1, t2)
    IN IF n = 0 THEN idx
       ELSE [db     |-> [x \in DOMAIN idx.db \cup {id} |->
                            IF x = id THEN meta ELSE idx.db[x]],
             pathDb |-> PutAliases(idx.pathDb,
                                   SubSeq(LocationsOf(meta), 1, n - 1), id)]

\* Index.delete of an existing id whose storage write number n + 1 throws:
\* one alias removal per location, then the record removal
IndexDeleteInterrupted(idx, id, n) ==
    [db     |-> idx.db,
     pathDb |-> RemoveAliases(idx.pathDb, SubSeq(LocationsOf(idx.db[id]), 1, n))]

----------------------------------------------------------------------------
(* Stored (src/index.js).  A run of one operation is threaded through a    *)
(* record m: the index, the backends' files, the notifications emitted so  *)
(* far with what a listener reads from the index at each (emit is          *)
(* synchronous), and the clock readings ts of which `used` are consumed.   *)

Start(idx, fs, ts) ==
    [idx |-> idx, files |-> fs, emitted |-> <<>>, observed |-> <<>>,
     ts |-> ts, used |-> 0, ret |-> None]

Emit(m, type, payload) ==
    [m EXCEPT !.emitted  = Append(@, [type |-> type, payload |-> payload]),
              !.observed = Append(@, m.idx)]

\* this.#index.put(id, metadata): two readings of Date.now()
Put(m, id, metadata) ==
    [m EXCEPT !.idx  = IndexPut(m.idx, id, metadata, m.ts[m.used + 1], m.ts[m.used + 2]),
              !.used = @ + 2]

\* this.#index.delete(id)
Delete(m, id) == [m EXCEPT !.idx = IndexDelete(m.idx, id)]

\* mutant of MergeLocation: the record's locations are replaced by the new
\* location instead of being merged with it
MergeLocationReplacing(existing, backend, key) ==
    <<Location(backend, key)>>

\* `existing?.locations || []`, then push the location unless it is listed
MergeLocation(existing, backend, key) ==
    LET locations == IF existing = None THEN <<>> ELSE LocationsOf(existing[1])
    IN IF HasPath(locations, backend, key) THEN locations
       ELSE Append(locations, Location(backend, key))

\* the fields an add / change / scan passes to Index.put
EventMetadata(data, locations) ==
    [checksums |-> data.checksums[1], size |-> data.size,
     mimeType |-> data.mimeType, locations |-> locations]

\* #handleFileEvent, branch file:add
HandleAdd(m, data) ==
    LET id        == formatId(data.checksums[1], primaryChecksum)
        existing  == IndexGet(m.idx, id)
        locations == MergeLocation(existing, data.backend, data.key)
    IN Emit(Put(m, id, EventMetadata(data, locations)),
            "file:add", [id |-> id, locations |-> locations] @@ data)

\* mutant of RemoveLocation: the shrunk record is persisted even when no
\* location is left
RemoveLocationNeverDeleting(m, meta, backend, key) ==
    Put(m, meta.id, [meta EXCEPT !.locations = WithoutPath(meta.locations, backend, key)])

\* remove (backend, key) from the record: delete it when no location is
\* left, else persist the shrunk record
RemoveLocation(m, meta, backend, key) ==
    LET locations == WithoutPath(meta.locations, backend, key)
    IN IF Len(locations) = 0
       THEN Delete(m, meta.id)
       ELSE Put(m, meta.id, [meta EXCEPT !.locations = locations])

\* mutant of HandleChange: the path is added to the new record before it
\* is removed from the old one
HandleChangeAddingFirst(m, data) ==
    LET pathKey == PathKey(data.backend, data.key)
        oldMeta == IndexGet(m.idx, pathKey)
        newId     == formatId(data.checksums[1], primaryChecksum)
        existing  == IndexGet(m.idx, newId)
        locations == MergeLocation(existing, data.backend, data.key)
        m1 == Emit(Put(m, newId, EventMetadata(data, locations)),
                   "file:add", [id |-> newId, locations |-> locations] @@ data)
    IN IF oldMeta = None \/ oldMeta[1].id = newId THEN m1
       ELSE Emit(RemoveLocation(m1, oldMeta[1], data.backend, data.key),
                 "file:unlink",
                 [id |-> oldMeta[1].id,
                  checksums |-> Some(oldMeta[1].checksums)] @@ data)

\* mutant of HandleChange: the old record is shrunk without a file:unlink
\* being emitted for it
HandleChangeUnannounced(m, data) ==
    LET pathKey == PathKey(data.backend, data.key)
        oldMeta == IndexGet(m.idx, pathKey)
        m1 == IF oldMeta = None THEN m
              ELSE RemoveLocation(m, oldMeta[1], data.backend, data.key)
        newId     == formatId(data.checksums[1], primaryChecksum)
        existing  == IndexGet(m1.idx, newId)
        locations == MergeLocation(existing, data.backend, data.key)
    IN Emit(Put(m1, newId, EventMetadata(data, locations)),
            "file:add", [id |-> newId, locations |-> locations] @@ data)

\* #handleFileEvent, branch file:change
HandleChange(m, data) ==
    LET pathKey == PathKey(data.backend, data.key)
        oldMeta == IndexGet(m.idx, pathKey)
        m1 == IF oldMeta = None THEN m
              ELSE Emit(RemoveLocation(m, oldMeta[1], data.backend, data.key),
                        "file:unlink",
                        [id |-> oldMeta[1].id,
                         checksums |-> Some(oldMeta[1].checksums)] @@ data)
        newId     == formatId(data.checksums[1], primaryChecksum)
        existing  == IndexGet(m1.idx, newId)
        locations == MergeLocation(existing, data.backend, data.key)
    IN Emit(Put(m1, newId, EventMetadata(data, locations)),
            "file:add", [id |-> newId, locations |-> locations] @@ data)

\* mutant of HandleUnlink: nothing is emitted for a path the index does
\* not resolve
HandleUnlinkSilent(m, data) ==
    LET pathKey == PathKey(data.backend, data.key)
        meta    == IndexGet(m.idx, pathKey)
    IN IF meta = None THEN m
       ELSE Emit(RemoveLocation(m, meta[1], data.backend, data.key),
                 "file:unlink",
                 [id |-> meta[1].id, checksums |-> Some(meta[1].checksums),
                  locations |-> WithoutPath(meta[1].locations, data.backend, data.key)]
                     @@ data)

\* #handleFileEvent, branch file:unlink
HandleUnlink(m, data) ==
    LET pathKey == PathKey(data.backend, data.key)
        meta    == IndexGet(m.idx, pathKey)
    IN IF meta = None THEN Emit(m, "file:unlink", data)
       ELSE Emit(RemoveLocation(m, meta[1], data.backend, data.key),
                 "file:unlink",
                 [id |-> meta[1].id, checksums |-> Some(meta[1].checksums),
                  locations |-> WithoutPath(meta[1].locations, data.backend, data.key)]
                     @@ data)

\* #handleFileEvent: an add or change without checksums falls through all
\* three branches
handleFileEvent(m, event, data) ==
    IF event = "file:add" /\ data.checksums # None THEN HandleAdd(m, data)
    ELSE IF event = "file:change" /\ data.checksums # None THEN HandleChange(m, data)
    ELSE IF event = "file:unlink" THEN HandleUnlink(m, data)
    ELSE m

\* BackendManager.get(name) is defined
Registered(registry, name) == name \in Range(registry)

\* #normalizeBlob for a Buffer or a string that names no file
normalizeBlob(blob) ==
    [data      |-> blob.content,
     checksums |-> checksumBuffer(blob.content, configChecksums),
     size      |-> SizeOf(blob.content),
     mimeType  |-> IF blob.kind = "string" THEN "text/plain"
                   ELSE detectMimeType(blob.content)]

\* mutant of WriteToBackends: a location is pushed for each registered
\* target but no bytes are written
RECURSIVE WriteToBackendsNotWriting(_, _, _, _, _)
WriteToBackendsNotWriting(w, targets, registry, key, content) ==
    IF targets = <<>> THEN w
    ELSE LET b == Head(targets)
         IN IF ~Registered(registry, b)
            THEN WriteToBackendsNotWriting(w, Tail(targets), registry, key, content)
            ELSE WriteToBackendsNotWriting(
                    [files     |-> w.files,
                     locations |-> Append(w.locations, Location(b, key))],
                    Tail(targets), registry, key, content)

\* Stored.put, the loop over the target backends: FileBackend.put writes
\* the bytes, and one location is pushed per registered target
RECURSIVE WriteToBackends(_, _, _, _, _)
WriteToBackends(w, targets, registry, key, content) ==
    IF targets = <<>> THEN w
    ELSE LET b == Head(targets)
         IN IF ~Registered(registry, b)
            THEN WriteToBackends(w, Tail(targets), registry, key, content)
            ELSE WriteToBackends(
                    [files     |-> [f \in DOMAIN w.files \cup {<<b, key>>} |->
                                       IF f = <<b, key>> THEN content ELSE w.files[f]],
                     locations |-> Append(w.locations, Location(b, key))],
                    Tail(targets), registry, key, content)

\* Stored.put; `ret` is the record it returns
StoredPut(m, registry, blob, key, backendsOpt, custom) ==
    LET n        == normalizeBlob(blob)
        id       == formatId(n.checksums, primaryChecksum)
        finalKey == IF key # None THEN key[1] ELSE generateKey(n.checksums)
        targets  == IF Len(backendsOpt) # 0 THEN backendsOpt ELSE registry
        w        == WriteToBackends([files |-> m.files, locations |-> <<>>],
                                    targets, registry, finalKey, n.data)
        m1       == Put([m EXCEPT !.files = w.files], id,
                        [checksums |-> n.checksums, size |-> Some(n.size),
                         mimeType |-> n.mimeType, locations |-> w.locations,
                         custom |-> custom])
        meta     == m1.idx.db[id]
    IN [Emit(m1, "put", [id |-> id, key |-> finalKey, metadata |-> meta])
           EXCEPT !.ret = Some(meta)]

\* Stored.get: the bytes at the first synced location of the record, read
\* from its backend; nothing when the record, a synced location, the
\* backend or the file is missing
StoredGet(idx, fs, registry, idOrKey) ==
    LET meta == IndexGet(idx, idOrKey)
    IN IF meta = None THEN None
       ELSE LET synced == SelectSeq(LocationsOf(meta[1]), LAMBDA l : l.synced)
            IN IF synced = <<>> THEN None
               ELSE IF ~Registered(registry, synced[1].backend) THEN None
               ELSE IF <<synced[1].backend, synced[1].key>> \notin DOMAIN fs THEN None
               ELSE Some(fs[<<synced[1].backend, synced[1].key>>])

\* Stored.delete, the loop over the targets: FileBackend.delete removes the
\* file and answers whether it was there
RECURSIVE DeleteFromBackends(_, _, _)
DeleteFromBackends(w, targets, registry) ==
    IF targets = <<>> THEN w
    ELSE LET loc == Head(targets)
             f   == <<loc.backend, loc.key>>
         IN IF Registered(registry, loc.backend) /\ f \in DOMAIN w.files
            THEN DeleteFromBackends([files   |-> Remove(w.files, f),
                                     deleted |-> Append(w.deleted, loc.backend)],
                                    Tail(targets), registry)
            ELSE DeleteFromBackends(w, Tail(targets), registry)

\* Stored.delete from its first await on, with the record meta it read
\* before: the backend deletions, the index update and the notification;
\* `ret` is the `deleted` list it returns
ResumeDelete(m, registry, meta, backendsOpt) ==
    LET targets == IF backendsOpt # None
                   THEN SelectSeq(meta.locations,
                            LAMBDA l : l.backend \in Range(backendsOpt[1]))
                   ELSE meta.locations
        w       == DeleteFromBackends([files |-> m.files, deleted |-> <<>>],
                                      targets, registry)
        m1      == [m EXCEPT !.files = w.files]
        m2      == IF backendsOpt = None \/ Len(w.deleted) = Len(meta.locations)
                   THEN Delete(m1, meta.id)
                   ELSE Put(m1, meta.id,
                            [meta EXCEPT !.locations = SelectSeq(meta.locations,
                                LAMBDA l : l.backend \notin Range(w.deleted))])
    IN [Emit(m2, "delete", [id |-> meta.id, backends |-> w.deleted])
           EXCEPT !.ret = w.deleted]

\* mutant of StoredDelete: a 'delete' event is emitted also when nothing
\* resolves
StoredDeleteAnnouncing(m, registry, idOrKey, backendsOpt) ==
    LET found == IndexGet(m.idx, idOrKey)
    IN IF found = None
       THEN [Emit(m, "delete", [id |-> idOrKey, backends |-> <<>>]) EXCEPT !.ret = <<>>]
       ELSE ResumeDelete(m, registry, found[1], backendsOpt)

\* Stored.delete; backendsOpt is None when options.backends is not given
StoredDelete(m, registry, idOrKey, backendsOpt) ==
    LET found == IndexGet(m.idx, idOrKey)
    IN IF found = None THEN [m EXCEPT !.ret = <<>>]
       ELSE ResumeDelete(m, registry, found[1], backendsOpt)

\* FileBackend.list: the keys of one backend's files, in directory order
RECURSIVE ListKeys(_, _, _)
ListKeys(fs, backend, order) ==
    IF order = <<>> THEN <<>>
    ELSE (IF <<backend, Head(order)>> \in DOMAIN fs THEN <<Head(order)>> ELSE <<>>)
             \o ListKeys(fs, backend, Tail(order))

\* FileBackend.scan: one result per listed file; a checksum computation
\* that fails yields null
ScanResults(fs, backend, failed) ==
    LET keys == ListKeys(fs, backend, DirectoryOrder)
    IN [i \in 1..Len(keys) |->
          [backend   |-> backend,
           key       |-> keys[i],
           checksums |-> IF <<backend, keys[i]>> \in failed THEN None
                         ELSE Some(checksumBuffer(fs[<<backend, keys[i]>>],
                                                  configChecksums)),
           mimeType  |-> detectMimeType(fs[<<backend, keys[i]>>]),
           size      |-> Some(SizeOf(fs[<<backend, keys[i]>>]))]]

\* mutant of IndexScanned: an item whose id already has a record is skipped
RECURSIVE IndexScannedSkippingKnown(_, _)
IndexScannedSkippingKnown(m, results) ==
    IF results = <<>> THEN m
    ELSE LET file == Head(results)
         IN IF file.checksums = None
               \/ formatId(file.checksums[1], primaryChecksum) \in DOMAIN m.idx.db
            THEN IndexScannedSkippingKnown(m, Tail(results))
            ELSE LET id == formatId(file.checksums[1], primaryChecksum)
                 IN IndexScannedSkippingKnown(
                        Put(m, id, EventMetadata(file, <<Location(file.backend, file.key)>>)),
                        Tail(results))

\* mutant of IndexScanned: the scanned path replaces the record's locations
RECURSIVE IndexScannedReplacing(_, _)
IndexScannedReplacing(m, results) ==
    IF results = <<>> THEN m
    ELSE LET file == Head(results)
         IN IF file.checksums = None
            THEN IndexScannedReplacing(m, Tail(results))
            ELSE LET id == formatId(file.checksums[1], primaryChecksum)
                 IN IndexScannedReplacing(
                        Put(m, id, EventMetadata(file, <<Location(file.backend, file.key)>>)),
                        Tail(results))

\* Stored.scan, the loop over one backend's results
RECURSIVE IndexScanned(_, _)
IndexScanned(m, results) ==
    IF results = <<>> THEN m
    ELSE LET file == Head(results)
         IN IF file.checksums = None
            THEN IndexScanned(m, Tail(results))
            ELSE LET id        == formatId(file.checksums[1], primaryChecksum)
                     existing  == IndexGet(m.idx, id)
                     locations == MergeLocation(existing, file.backend, file.key)
                 IN IndexScanned(Put(m, id, EventMetadata(file, locations)),
                                 Tail(results))

\* Stored.scan, the loop over the backends; scan:start and scan:complete
\* are re-emitted as the backend raises them; `ret` collects the results
RECURSIVE ScanBackends(_, _, _)
ScanBackends(m, targets, failed) ==
    IF targets = <<>> THEN m
    ELSE LET b       == Head(targets)
             results == ScanResults(m.files, b, failed)
             m1 == Emit(m, "scan:start", [backend |-> b])
             m2 == Emit(m1, "scan:complete", [backend |-> b, count |-> Len(results)])
             m3 == IndexScanned(m2, results)
         IN ScanBackends([m3 EXCEPT !.ret = @ \o results], Tail(targets), failed)

\* the backends Stored.scan visits
ScanTargets(registry, backendName) ==
    IF backendName # None
    THEN (IF Registered(registry, backendName[1]) THEN backendName ELSE <<>>)
    ELSE registry

StoredScan(m, registry, backendName, failed) ==
    ScanBackends(m, ScanTargets(registry, backendName), failed)

\* number of files Stored.scan will be handed
RECURSIVE ScanCount(_, _)
ScanCount(fs, targets) ==
    IF targets = <<>> THEN 0
    ELSE Len(ListKeys(fs, Head(targets), DirectoryOrder)) + ScanCount(fs, Tail(targets))

----------------------------------------------------------------------------
(* The state machine                                                       *)

EmptyMap == [x \in {} |-> 0]

Init ==
    /\ db = EmptyMap
    /\ pathDb = EmptyMap
    /\ backends = <<>>
    /\ files = EmptyMap
    /\ now = 1
    /\ emitted = <<>>
    /\ observed = <<>>
    /\ call = [op |-> "new", args |-> <<>>, ret |-> None]
    /\ ops = 0
    /\ pending = None
    /\ inflight = <<>>
    /\ iter = None

\* the state after a run m of operation op; clock readings that the run
\* did not consume are pinned so that they add no behaviours
CommitRun(m, op, args) ==
    /\ call.op # "stop"      \* the index has not been closed
    /\ \A i \in m.used + 1 .. Len(m.ts) : m.ts[i] = MaxClock
    /\ db' = m.idx.db
    /\ pathDb' = m.idx.pathDb
    /\ files' = m.files
    /\ now' = IF m.used = 0 THEN now ELSE m.ts[m.used]
    /\ emitted' = m.emitted
    /\ observed' = m.observed
    /\ call' = [op |-> op, args |-> args, ret |-> m.ret]
    /\ ops' = ops + 1
    /\ UNCHANGED backends

\* Index.put is between its record write and its alias writes: `pending`
\* holds the run of the Stored.put that called it
Writing == pending # None /\ "run" \in DOMAIN pending[1]

\* the same for an operation that runs to its end without suspending; it
\* starts only when no synchronous code is running
Commit(m, op, args) ==
    /\ ~Writing
    /\ CommitRun(m, op, args)
    /\ UNCHANGED <<pending, inflight, iter>>

\* what the watcher of a backend reports for a file with that content: the
\* checksums under the backend's algorithms, or null when computing them
\* failed
WatchData(backend, key, content) ==
    { [backend |-> backend, key |-> key, checksums |-> ck,
       mimeType |-> detectMimeType(content), size |-> Some(SizeOf(content))] :
         ck \in {None} \cup {Some(checksumBuffer(content, algos)) : algos \in WatchAlgorithms} }

WriteFile(fs, backend, key, content) ==
    [f \in DOMAIN fs \cup {<<backend, key>>} |->
        IF f = <<backend, key>> THEN content ELSE fs[f]]

\* a file appears in a watched backend and its file:add is handled
FileAdd ==
    /\ ops < MaxOps
    /\ \E b \in Range(backends), k \in Keys, c \in Contents :
       \E data \in WatchData(b, k, c), ts \in TimeSeqs(now, 2) :
          Commit(handleFileEvent(Start(Idx, WriteFile(files, b, k, c), ts),
                                 "file:add", data),
                 "file:add", data)

\* a watched file is rewritten and its file:change is handled
FileChange ==
    /\ ops < MaxOps
    /\ \E b \in Range(backends), k \in Keys, c \in Contents :
       \E data \in WatchData(b, k, c), ts \in TimeSeqs(now, 4) :
          Commit(handleFileEvent(Start(Idx, WriteFile(files, b, k, c), ts),
                                 "file:change", data),
                 "file:change", data)

\* a watched file is removed and its file:unlink is handled
FileUnlink ==
    /\ ops < MaxOps
    /\ \E b \in Range(backends), k \in Keys, ts \in TimeSeqs(now, 2) :
          LET data == [backend |-> b, key |-> k]
          IN Commit(handleFileEvent(Start(Idx, Remove(files, <<b, k>>), ts),
                                    "file:unlink", data),
                    "file:unlink", data)

\* a file is removed from a backend that is not watching
ExternalRemove ==
    /\ ops < MaxOps
    /\ \E f \in DOMAIN files :
          Commit(Start(Idx, Remove(files, f), <<>>), "external:remove", f)

PutCall ==
    /\ ops < MaxOps
    /\ \E blob \in Blobs, key \in PutKeys, bs \in BackendsOptions,
          custom \in CustomInputs, ts \in TimeSeqs(now, 2) :
          Commit(StoredPut(Start(Idx, files, ts), backends, blob, key, bs, custom),
                 "put", [blob |-> blob, key |-> key, backends |-> bs,
                         custom |-> custom])

DeleteCall ==
    /\ ops < MaxOps
    /\ \E idOrKey \in DOMAIN db \cup DOMAIN pathDb \cup {MissingId},
          bs \in DeleteOptions, ts \in TimeSeqs(now, 2) :
          Commit(StoredDelete(Start(Idx, files, ts), backends, idOrKey, bs),
                 "delete", [idOrKey |-> idOrKey, backends |-> bs])

ScanCall ==
    /\ ops < MaxOps
    /\ \E name \in {None} \cup {Some(b) : b \in BackendNames} :
       \E failed \in {fl \in SUBSET DOMAIN files : Cardinality(fl) <= MaxScanFailures},
          ts \in TimeSeqs(now, 2 * ScanCount(files, ScanTargets(backends, name))) :
          Commit(StoredScan(Start(Idx, files, ts), backends, name, failed),
                 "scan", [backend |-> name, failed |-> failed])

\* mutant of AddThrows: only the driver is checked, a registered name is
\* accepted
AddThrowsOnUnknownDriverOnly(registry, name, driver) == driver # "file"

\* BackendManager.add, the two checks before the backend is constructed
\* and set: the name is taken, or DRIVERS has no such driver
AddThrows(registry, name, driver) ==
    Registered(registry, name) \/ driver # "file"

\* Stored.addBackend / BackendManager.add: throws on a registered name or
\* an unknown driver
AddBackend ==
    /\ ops < MaxOps
    /\ ~Writing
    /\ \E name \in BackendNames, driver \in Drivers :
       LET throws == AddThrows(backends, name, driver)
       IN /\ backends' = IF throws THEN backends ELSE Append(backends, name)
          /\ call' = [op |-> "addBackend", args |-> [name |-> name, driver |-> driver],
                      ret |-> IF throws THEN <<"throws">> ELSE <<name>>]
          /\ emitted' = <<>>
          /\ observed' = <<>>
          /\ ops' = ops + 1
       /\ UNCHANGED <<db, pathDb, files, now, pending, inflight, iter>>

\* Stored.removeBackend / BackendManager.remove
RemoveBackend ==
    /\ ops < MaxOps
    /\ \E name \in BackendNames :
       /\ backends' = SelectSeq(backends, LAMBDA b : b # name)
       /\ call' = [op |-> "removeBackend", args |-> [name |-> name],
                   ret |-> <<Registered(backends, name)>>]
       /\ emitted' = <<>>
       /\ observed' = <<>>
       /\ ops' = ops + 1
       /\ UNCHANGED <<db, pathDb, files, now, pending, inflight, iter>>

Next ==
    \/ FileAdd
    \/ FileChange
    \/ FileUnlink
    \/ ExternalRemove
    \/ PutCall
    \/ DeleteCall
    \/ ScanCall
    \/ AddBackend
    \/ RemoveBackend

Spec == Init /\ [][Next]_vars

----------------------------------------------------------------------------
(* Stored.delete with its awaits: the call reads the record, suspends at   *)
(* `await backend.delete(...)` while other handlers run, then resumes with *)
(* the record it read.                                                     *)

\* the targets of the delete whose backend is registered: the first of
\* them is where the call suspends
Awaited(registry, meta, backendsOpt) ==
    SelectSeq(meta.locations,
        LAMBDA l : /\ Registered(registry, l.backend)
                   /\ (backendsOpt = None \/ l.backend \in Range(backendsOpt[1])))

\* Stored.delete up to its first await; it starts while the bound leaves
\* room for another handler to run and for the call to resume
DeleteBegin ==
    /\ ops + 1 < MaxOps
    /\ pending = None
    /\ \E idOrKey \in DOMAIN db \cup DOMAIN pathDb, bs \in DeleteOptions :
          LET found == IndexGet(Idx, idOrKey)
          IN /\ found # None
             /\ Awaited(backends, found[1], bs) # <<>>
             /\ pending' = Some([idOrKey |-> idOrKey, meta |-> found[1], backends |-> bs])
    /\ UNCHANGED <<db, pathDb, backends, files, now, emitted, observed, call, ops,
                   inflight, iter>>

\* Stored.delete from its first await to its return
DeleteEnd ==
    /\ ops < MaxOps
    /\ pending # None
    /\ \E ts \in TimeSeqs(now, 2) :
          CommitRun(ResumeDelete(Start(Idx, files, ts), backends,
                                 pending[1].meta, pending[1].backends),
                    "delete", [idOrKey |-> pending[1].idOrKey,
                               backends |-> pending[1].backends])
    /\ pending' = None
    /\ UNCHANGED <<inflight, iter>>

\* the handlers that change a record's locations, Stored.delete in two steps
NextAsync ==
    \/ AddBackend
    \/ PutCall
    \/ FileAdd
    \/ FileChange
    \/ FileUnlink
    \/ DeleteBegin
    \/ DeleteEnd

SpecAsync == Init /\ [][NextAsync]_vars

----------------------------------------------------------------------------
(* The watcher of a file backend with its awaits: the 'add' and 'change'   *)
(* callbacks compute checksums, MIME type and size asynchronously and emit *)
(* when all three are settled; the 'unlink' callback emits at once.        *)

\* the watcher raises 'add' (new file) or 'change' (existing file) for a
\* written file and its callback starts computing
WatchBegin ==
    /\ ops < MaxOps
    /\ Len(inflight) < MaxInflight
    /\ \E b \in Range(backends), k \in Keys, c \in Contents :
       \E data \in WatchData(b, k, c) :
          LET event == IF <<b, k>> \in DOMAIN files THEN "file:change" ELSE "file:add"
          IN /\ files' = WriteFile(files, b, k, c)
             /\ inflight' = Append(inflight, [event |-> event, data |-> data])
             /\ call' = [op |-> "watch:" \o event, args |-> data, ret |-> None]
    /\ emitted' = <<>>
    /\ observed' = <<>>
    /\ ops' = ops + 1
    /\ UNCHANGED <<db, pathDb, backends, now, pending, iter>>

\* one of the computing callbacks settles, emits its event, and Stored
\* handles it; the callbacks settle in any order
WatchEmit ==
    /\ ops < MaxOps
    /\ \E i \in DOMAIN inflight, ts \in TimeSeqs(now, 4) :
          /\ CommitRun(handleFileEvent(Start(Idx, files, ts),
                                       inflight[i].event, inflight[i].data),
                       inflight[i].event, inflight[i].data)
          /\ inflight' = [j \in 1 .. Len(inflight) - 1 |->
                              IF j < i THEN inflight[j] ELSE inflight[j + 1]]
    /\ UNCHANGED <<pending, iter>>

NextWatch ==
    \/ AddBackend
    \/ WatchBegin
    \/ WatchEmit
    \/ FileUnlink

SpecWatch == Init /\ [][NextWatch]_vars

----------------------------------------------------------------------------
(* Enumeration: Stored.list() without a backend yields the records of      *)
(* Index.entries(), one per next() of its consumer, while other handlers   *)
(* run between two next().  Index.put is shown in two steps, its record    *)
(* write and its alias writes; it contains no await, yield or emit, so no  *)
(* other code runs between the two.                                        *)

\* the order in which getRange() visits the keys of the record database
KeyOrder == <<"sha256:c1", "sha256:c2", "sha256:undefined">>

\* mutant of NextKey: the cursor is positioned at the first key again
NextKeyFromStart(d, pos) ==
    LET later == {p \in DOMAIN KeyOrder : KeyOrder[p] \in DOMAIN d}
    IN IF later = {} THEN 0 ELSE CHOOSE p \in later : \A q \in later : p <= q

\* the position of the first key after the cursor that the database d
\* holds, 0 when there is none
NextKey(d, pos) ==
    LET later == {p \in DOMAIN KeyOrder : p > pos /\ KeyOrder[p] \in DOMAIN d}
    IN IF later = {} THEN 0 ELSE CHOOSE p \in later : \A q \in later : p <= q

\* Stored.put up to the record write of its Index.put: the bytes are in
\* the backends and the record is stored, the aliases are not yet written
PutBegin ==
    /\ ops < MaxOps
    /\ pending = None
    /\ \E blob \in Blobs, key \in PutKeys, bs \in BackendsOptions,
          custom \in CustomInputs, ts \in TimeSeqs(now, 2) :
          LET m  == StoredPut(Start(Idx, files, ts), backends, blob, key, bs, custom)
              id == m.ret[1].id
          IN /\ files' = m.files
             /\ db' = [x \in DOMAIN db \cup {id} |->
                          IF x = id THEN m.ret[1] ELSE db[x]]
             /\ pending' = Some([run |-> m,
                                 args |-> [blob |-> blob, key |-> key,
                                           backends |-> bs, custom |-> custom]])
    /\ UNCHANGED <<pathDb, backends, now, emitted, observed, call, ops, inflight,
                   iter>>

\* Stored.put from the alias writes of its Index.put to its return
PutEnd ==
    /\ Writing
    /\ CommitRun(pending[1].run, "put", pending[1].args)
    /\ pending' = None
    /\ UNCHANGED <<inflight, iter>>

\* the first next() of the consumer starts the generators: getRange()
\* opens a cursor, either on a snapshot of the database or on the database
\* as it is at each step; the consumers of the model enumerate an index
\* that holds a record
ListBegin ==
    /\ iter = None
    /\ ~Writing
    /\ db # EmptyMap
    /\ \E snapshot \in {None, Some(db)} :
          iter' = Some([snapshot |-> snapshot, pos |-> 0, yielded |-> <<>>,
                        done |-> FALSE])
    /\ UNCHANGED <<db, pathDb, backends, files, now, emitted, observed, call, ops,
                   pending, inflight>>

\* one step of the enumeration: the cursor moves to the next key and
\* Stored.list yields its record, or the range is exhausted
ListNext ==
    /\ iter # None
    /\ ~iter[1].done
    /\ ~Writing
    /\ LET d == IF iter[1].snapshot # None THEN iter[1].snapshot[1] ELSE db
           p == NextKey(d, iter[1].pos)
       IN iter' = IF p = 0 \/ Len(iter[1].yielded) >= MaxYields
                  THEN Some([iter[1] EXCEPT !.done = TRUE])
                  ELSE Some([iter[1] EXCEPT
                               !.pos = p,
                               !.yielded = Append(@, KeyOrder[p])])
    /\ UNCHANGED <<db, pathDb, backends, files, now, emitted, observed, call, ops,
                   pending, inflight>>

NextList ==
    \/ AddBackend
    \/ PutBegin
    \/ PutEnd
    \/ FileUnlink
    \/ DeleteCall
    \/ ListBegin
    \/ ListNext

SpecList == Init /\ [][NextList]_vars

----------------------------------------------------------------------------
(* Restart: Stored.stop closes the watchers and the index; a new Stored    *)
(* constructed with the same index path opens the same LMDB environment.   *)
(* db and pathDb are the contents of that environment: putSync and         *)
(* removeSync commit before they return.                                   *)

\* mutant of OpenIndex: the databases are opened empty
OpenIndexEmpty(stored) == [db |-> EmptyMap, pathDb |-> EmptyMap]

\* Index constructor: open() of the environment at the path and openDB of
\* its 'paths' database give the committed contents
OpenIndex(stored) == [db |-> stored.db, pathDb |-> stored.pathDb]

\* Stored.stop: every backend's watcher is closed (the registry keeps the
\* backends) and the index is closed
StopCall ==
    /\ ops < MaxOps
    /\ call.op # "stop"
    /\ call' = [op |-> "stop", args |-> <<>>, ret |-> None]
    /\ emitted' = <<>>
    /\ observed' = <<>>
    /\ ops' = ops + 1
    /\ UNCHANGED <<db, pathDb, backends, files, now, pending, inflight, iter>>

\* new Stored(config) after a stop, with the index path of the stopped
\* instance: a new BackendManager without backends, and the index reopened
OpenCall ==
    /\ ops < MaxOps
    /\ call.op = "stop"
    /\ db' = OpenIndex(Idx).db
    /\ pathDb' = OpenIndex(Idx).pathDb
    /\ backends' = <<>>
    /\ pending' = None
    /\ inflight' = <<>>
    /\ call' = [op |-> "open", args |-> <<>>, ret |-> None]
    /\ emitted' = <<>>
    /\ observed' = <<>>
    /\ ops' = ops + 1
    /\ UNCHANGED <<files, now, iter>>

NextRestart ==
    \/ AddBackend
    \/ PutCall
    \/ FileAdd
    \/ FileUnlink
    \/ DeleteCall
    \/ StopCall
    \/ OpenCall

SpecRestart == Init /\ [][NextRestart]_vars

----------------------------------------------------------------------------
(* The Index driven directly through its own interface, with storage       *)
(* writes (putSync / removeSync) that may throw.                           *)

IndexIds == {"sha256:c1", "sha256:c2"}

\* the partial records handed to Index.put: two full records, a record of
\* locations only (its path key "sha256:c2" reads like an id), and a
\* record that supplies id, created and modified
IndexRecords ==
    { [checksums |-> [sha256 |-> "c1"], size |-> Some(1), mimeType |-> "image/png",
       locations |-> <<Location("be1", "a")>>, custom |-> <<>>],
      [checksums |-> [sha256 |-> "c2", md5 |-> "m2"], size |-> Some(2),
       mimeType |-> "text/plain",
       locations |-> <<Location("be1", "a"), Location("be1", "b")>>,
       custom |-> [k1 |-> "v1"]],
      [locations |-> <<Location("sha256", "c2")>>],
      [id |-> "sha256:c0", created |-> MaxClock + 1, modified |-> 0,
       custom |-> [k1 |-> "v1"]] }

\* the index and the clock after an Index call; Stored is not involved
CommitIndex(idx, t, op, args, ret) ==
    /\ db' = idx.db
    /\ pathDb' = idx.pathDb
    /\ now' = t
    /\ call' = [op |-> op, args |-> args, ret |-> ret]
    /\ ops' = ops + 1
    /\ UNCHANGED <<backends, files, emitted, observed, pending, inflight, iter>>

IndexPutCall ==
    /\ ops < MaxOps
    /\ \E id \in IndexIds, metadata \in IndexRecords, ts \in TimeSeqs(now, 2) :
          CommitIndex(IndexPut(Idx, id, metadata, ts[1], ts[2]), ts[2],
                      "index.put", [id |-> id, metadata |-> metadata],
                      Some(MergedMeta(Idx, id, metadata, ts[1], ts[2])))

IndexDeleteCall ==
    /\ ops < MaxOps
    /\ \E id \in IndexIds :
          CommitIndex(IndexDelete(Idx, id), now, "index.delete", [id |-> id],
                      Some(IndexDeleteResult(Idx, id)))

\* the arguments of Index.get / Index.has: ids, the path keys of the
\* locations above, and an id no record is stored under
IndexArgs ==
    IndexIds \cup {MissingId}
        \cup UNION { {PathKey(r.locations[i].backend, r.locations[i].key) :
                          i \in DOMAIN LocationsOf(r)} : r \in IndexRecords }

IndexGetCall ==
    /\ ops < MaxOps
    /\ \E x \in IndexArgs :
          CommitIndex(Idx, now, "index.get", [idOrPath |-> x], IndexGet(Idx, x))

IndexHasCall ==
    /\ ops < MaxOps
    /\ \E x \in IndexArgs :
          CommitIndex(Idx, now, "index.has", [idOrPath |-> x], Some(IndexHas(Idx, x)))

\* Index.put in which a storage write throws
IndexPutThrows ==
    /\ ops < MaxOps
    /\ \E id \in IndexIds, metadata \in IndexRecords, ts \in TimeSeqs(now, 2) :
       \E n \in 0 .. Len(LocationsOf(MergedMeta(Idx, id, metadata, ts[1], ts[2]))) :
          CommitIndex(IndexPutInterrupted(Idx, id, metadata, ts[1], ts[2], n), ts[2],
                      "index.put:throws",
                      [id |-> id, metadata |-> metadata, written |-> n], None)

\* Index.delete in which a storage write throws
IndexDeleteThrows ==
    /\ ops < MaxOps
    /\ \E id \in DOMAIN db :
       \E n \in 0 .. Len(LocationsOf(db[id])) :
          CommitIndex(IndexDeleteInterrupted(Idx, id, n), now,
                      "index.delete:throws", [id |-> id, written |-> n], None)

NextIndex ==
    \/ IndexPutCall
    \/ IndexDeleteCall
    \/ IndexGetCall
    \/ IndexHasCall
    \/ IndexPutThrows
    \/ IndexDeleteThrows

SpecIndex == Init /\ [][NextIndex]_vars

----------------------------------------------------------------------------
(* Properties.  The helpers below state the claims in their own terms.     *)

\* the record under id in the record map d lists (backend, key)
ListsIn(d, id, backend, key) ==
    /\ id \in DOMAIN d
    /\ \E i \in DOMAIN d[id].locations :
          d[id].locations[i].backend = backend /\ d[id].locations[i].key = key

\* locs without every entry for (backend, key), order kept
Remaining(locs, backend, key) ==
    SelectSeq(locs, LAMBDA l : <<l.backend, l.key>> # <<backend, key>>)

\* the last operation was a file event of that type that carried checksums
Reconciled(c, type) == c.op = type /\ c.args.checksums # None

\* C1: for every record R and every {backend, key} in R.locations, the
\* alias "<backend>:<key>" exists, resolves to R.id, and index.get of it
\* returns R itself.
C1_AliasConsistency ==
    \A id \in DOMAIN db : \A i \in DOMAIN db[id].locations :
        LET pk == PathKey(db[id].locations[i].backend, db[id].locations[i].key)
        IN /\ pk \in DOMAIN pathDb
           /\ pathDb[pk] = id
           /\ IndexGet(Idx, pk) = Some(db[id])

\* C2: every alias points to an existing record whose locations contain
\* the aliased (backend, key).
C2_AliasOnlyWhileListed ==
    \A pk \in DOMAIN pathDb :
        /\ pathDb[pk] \in DOMAIN db
        /\ \E i \in DOMAIN db[pathDb[pk]].locations :
              PathKey(db[pathDb[pk]].locations[i].backend,
                      db[pathDb[pk]].locations[i].key) = pk

\* C3: no record in the index has an empty locations sequence.
C3_NoEmptyLocations ==
    \A id \in DOMAIN db : Len(db[id].locations) > 0

\* C4: once Stored.delete or an unlink / change reconciliation has removed
\* a record, index.has(id) is false and no alias key resolves to its id.
C4_DeleteRemovesEveryAlias ==
    \A i \in DOMAIN emitted :
        (/\ emitted[i].type \in {"delete", "file:unlink"}
         /\ "id" \in DOMAIN emitted[i].payload
         /\ emitted[i].payload.id \notin DOMAIN db)
        => /\ ~IndexHas(Idx, emitted[i].payload.id)
           /\ \A pk \in DOMAIN pathDb : pathDb[pk] # emitted[i].payload.id

\* one shared record: id has a record that lists (backend, key), and the
\* path alias of (backend, key) resolves to that very record
SharedIn(idx, id, backend, key) ==
    /\ ListsIn(idx.db, id, backend, key)
    /\ IndexGet(idx, PathKey(backend, key)) = Some(idx.db[id])

C5_Step ==
    Reconciled(call', "file:add") =>
        LET second == call'.args
            id     == formatId(second.checksums[1], primaryChecksum)
            after  == [db |-> db', pathDb |-> pathDb']
        IN /\ (/\ Reconciled(call, "file:add")
               /\ call.args.checksums = second.checksums
               /\ <<call.args.backend, call.args.key>> # <<second.backend, second.key>>)
              => /\ SharedIn(after, id, call.args.backend, call.args.key)
                 /\ SharedIn(after, id, second.backend, second.key)
           /\ (call.op = "put" /\ call.ret[1].id = id)
              => /\ SharedIn(after, id, second.backend, second.key)
                 /\ \A i \in DOMAIN call.ret[1].locations :
                       SharedIn(after, id, call.ret[1].locations[i].backend,
                                call.ret[1].locations[i].key)

\* C5: when a file:add for one path is followed by a file:add for another
\* path with the same checksums, or Stored.put of a content by a file:add
\* with that content's checksums, one record with that id lists all these
\* paths and index.get of each path returns that one record.
C5_DedupOnAdd == [][C5_Step]_vars

\* C5 witness: a file:add has merged a second, distinct path into a record.
C5_Witness ==
    /\ Reconciled(call, "file:add")
    /\ LET locations == emitted[1].payload.locations
       IN /\ Len(locations) = 2
          /\ <<locations[1].backend, locations[1].key>>
                 # <<locations[2].backend, locations[2].key>>
          /\ SharedIn(Idx, emitted[1].payload.id, locations[1].backend, locations[1].key)

C6_Step ==
    Reconciled(call', "file:change") =>
        LET data == call'.args
            pk   == PathKey(data.backend, data.key)
            old  == IndexGet(Idx, pk)
            B    == formatId(data.checksums[1], primaryChecksum)
        IN (old # None /\ old[1].id # B) =>
            LET A    == old[1].id
                rest == Remaining(old[1].locations, data.backend, data.key)
            IN /\ ~ListsIn(db', A, data.backend, data.key)
               /\ IF rest = <<>> THEN A \notin DOMAIN db'
                  ELSE A \in DOMAIN db' /\ db'[A].locations = rest
               /\ ListsIn(db', B, data.backend, data.key)
               /\ db'[B].locations =
                     IF B \notin DOMAIN db THEN <<Location(data.backend, data.key)>>
                     ELSE IF ListsIn(db, B, data.backend, data.key)
                          THEN db[B].locations
                          ELSE Append(db[B].locations, Location(data.backend, data.key))
               /\ pk \in DOMAIN pathDb' /\ pathDb'[pk] = B

\* C6: a file:change for a path P whose alias resolves to A, carrying
\* checksums of another id B, leaves P out of A's locations (A deleted if
\* nothing remains, else persisted with the remaining locations), P in B's
\* locations (B created, or merged keeping its locations), alias P -> B.
C6_ChangeMovesPath == [][C6_Step]_vars

\* C6 witness: a change moved a path from a record that keeps other
\* locations to another id.
C6_Witness ==
    /\ Reconciled(call, "file:change")
    /\ Len(emitted) = 2
    /\ emitted[1].payload.id # emitted[2].payload.id
    /\ emitted[1].payload.id \in DOMAIN db
    /\ ListsIn(db, emitted[2].payload.id, call.args.backend, call.args.key)

\* C7: no state a listener reads during a file:change of P from A to B
\* shows P in the locations of both A's record and B's record.
C7_NeverUnderBoth ==
    (Reconciled(call, "file:change") /\ Len(emitted) = 2
        /\ emitted[1].payload.id # emitted[2].payload.id)
    => \A i \in DOMAIN observed :
          ~(/\ ListsIn(observed[i].db, emitted[1].payload.id,
                       call.args.backend, call.args.key)
            /\ ListsIn(observed[i].db, emitted[2].payload.id,
                       call.args.backend, call.args.key))

\* C7 witness: during a change of P from A to B, B's record listed P
\* already when file:unlink was emitted.
C7_Witness ==
    /\ Reconciled(call, "file:change")
    /\ Len(emitted) = 2
    /\ emitted[1].payload.id # emitted[2].payload.id
    /\ ListsIn(observed[1].db, emitted[2].payload.id, call.args.backend, call.args.key)

\* C8: at every emission during a file:change of a path known under an old
\* id, index.get of the path returns the old or the new record, never
\* nothing.
C8_AlwaysResolves ==
    (Reconciled(call, "file:change") /\ Len(emitted) = 2)
    => \A i \in DOMAIN observed :
          LET seen == IndexGet(observed[i], PathKey(call.args.backend, call.args.key))
          IN /\ seen # None
             /\ seen[1].id \in {emitted[1].payload.id, emitted[2].payload.id}

C9_Step ==
    call'.op = "file:unlink" =>
        LET data == call'.args
            R    == IndexGet(Idx, PathKey(data.backend, data.key))
        IN R # None =>
            LET rest == Remaining(R[1].locations, data.backend, data.key)
            IN /\ IF rest = <<>> THEN R[1].id \notin DOMAIN db'
                  ELSE /\ R[1].id \in DOMAIN db'
                       /\ db'[R[1].id].locations = rest
                       /\ db'[R[1].id].modified >= now
                       /\ db'[R[1].id].modified <= now'
               /\ emitted' = << [type |-> "file:unlink",
                                 payload |-> [backend |-> data.backend,
                                              key |-> data.key,
                                              id |-> R[1].id,
                                              checksums |-> Some(R[1].checksums),
                                              locations |-> rest]] >>

\* C9: a file:unlink for a path whose alias resolves to R deletes R when
\* no other location remains, else persists R with exactly the remaining
\* locations and modified read from the clock; the re-emitted file:unlink
\* carries R's id, R's checksums and exactly the remaining locations.
C9_UnlinkShrinks == [][C9_Step]_vars

\* C9 witness: an unlink left a record with its remaining location.
C9_Witness ==
    /\ call.op = "file:unlink"
    /\ "id" \in DOMAIN emitted[1].payload
    /\ Len(emitted[1].payload.locations) = 1
    /\ emitted[1].payload.id \in DOMAIN db
    /\ db[emitted[1].payload.id].locations = emitted[1].payload.locations
    /\ db[emitted[1].payload.id].modified > db[emitted[1].payload.id].created

\* C10: after a file:unlink for (backend, key), no record lists
\* (backend, key) and index.get("<backend>:<key>") is absent.
C10_UnlinkLeavesNoReference ==
    call.op = "file:unlink" =>
        /\ \A id \in DOMAIN db : ~ListsIn(db, id, call.args.backend, call.args.key)
        /\ IndexGet(Idx, PathKey(call.args.backend, call.args.key)) = None

\* the checksums of an event are absent or lack the primary digest
LacksPrimary(checksums) ==
    checksums = None \/ primaryChecksum \notin DOMAIN checksums[1]

C11_Step ==
    /\ (call'.op \in {"file:add", "file:change"} /\ LacksPrimary(call'.args.checksums))
          => (db' = db /\ pathDb' = pathDb)
    /\ \A id \in DOMAIN db' : id # formatId(EmptyMap, primaryChecksum)

\* C11: a file:add or file:change whose checksums are absent or lack the
\* primary digest changes no record and no alias, and no record exists
\* under an id made without a primary digest ("sha256:undefined").
C11_SkipsWithoutPrimaryDigest == [][C11_Step]_vars

C12_Step ==
    (pending # None /\ pending' = None /\ pending[1].backends # None) =>
        LET id == pending[1].meta.id
        IN id \in DOMAIN db =>
            \A i \in DOMAIN db[id].locations :
                LET loc == db[id].locations[i]
                IN ~HasPath(pending[1].meta.locations, loc.backend, loc.key)
                      => ListsIn(db', id, loc.backend, loc.key)

\* C12: when a Stored.delete with a backends filter resumes after handlers
\* that ran during its await, every location those handlers added to the
\* record is still in the record's locations.
C12_NoLostLocationUpdate == [][C12_Step]_vars

C13_Step ==
    (call'.op \in {"index.put:throws", "index.delete:throws"} /\ call'.args.written > 0)
        => (db' = db /\ pathDb' = pathDb)

\* C13: an Index.put or Index.delete in which a storage write throws after
\* at least one write has been applied leaves the records and the aliases
\* as they were before the call.
C13_AllOrNothing == [][C13_Step]_vars

C14_Step ==
    call'.op = "put" =>
        LET id == call'.ret[1].id
        IN id \in DOMAIN db =>
            /\ \A i \in DOMAIN db[id].locations :
                  ListsIn(db', id, db[id].locations[i].backend, db[id].locations[i].key)
            /\ \A i \in DOMAIN call'.ret[1].locations :
                  ListsIn(db', id, call'.ret[1].locations[i].backend,
                          call'.ret[1].locations[i].key)

\* C14: when Stored.put ingests content whose id already has a record, the
\* record's locations afterwards contain the previously indexed locations
\* as well as the new ones.
C14_PutMergesLocations == [][C14_Step]_vars

\* C15: no record's locations contain two entries with the same
\* (backend, key) pair.
C15_UniqueLocations ==
    \A id \in DOMAIN db :
        \A i \in DOMAIN db[id].locations : \A j \in DOMAIN db[id].locations :
            (/\ db[id].locations[i].backend = db[id].locations[j].backend
             /\ db[id].locations[i].key = db[id].locations[j].key) => i = j

C16_Step ==
    (Reconciled(call', "file:add") /\ ~LacksPrimary(call'.args.checksums)) =>
        LET data == call'.args
            id   == formatId(data.checksums[1], primaryChecksum)
        IN ListsIn(db, id, data.backend, data.key)
              => (db' = db /\ pathDb' = pathDb)

\* C16: a file:add for (backend, key) whose checksums identify a record
\* that already lists (backend, key) leaves every record, with all its
\* fields, and every alias as they were.
C16_ReplayedAddIsNoOp == [][C16_Step]_vars

\* C17: every record in the index has modified >= created.
C17_ModifiedNotBeforeCreated ==
    \A id \in DOMAIN db : db[id].modified >= db[id].created

C18_Step ==
    call'.op = "index.put" =>
        LET id == call'.args.id
        IN /\ id \in DOMAIN db'
           /\ db'[id].id = id
           /\ db'[id].modified >= now /\ db'[id].modified <= now'
           /\ IF id \in DOMAIN db THEN db'[id].created = db[id].created
              ELSE db'[id].created >= now /\ db'[id].created <= now'

\* C18: Index.put on an id that has a record keeps the record's created;
\* the stored id is the key and created / modified are the index's own
\* (the existing created or a clock reading), whatever id, created or
\* modified the caller's partial record supplies.
C18_CreatedKeptCallerIgnored == [][C18_Step]_vars

\* C18 witness: an Index.put whose partial record supplied id, created and
\* modified has updated an existing record, which kept its earlier created.
C18_Witness ==
    /\ call.op = "index.put"
    /\ "created" \in DOMAIN call.args.metadata
    /\ db[call.args.id].id # call.args.metadata.id
    /\ db[call.args.id].created # call.args.metadata.created
    /\ db[call.args.id].modified > db[call.args.id].created

\* C19: each record stored under key id has record.id = id, checksums that
\* contain the primary algorithm, and id = "<primary>:<checksums[primary]>".
C19_IdFromPrimaryDigest ==
    \A id \in DOMAIN db :
        /\ db[id].id = id
        /\ primaryChecksum \in DOMAIN db[id].checksums
        /\ id = formatId(db[id].checksums, primaryChecksum)

\* the fields of a full record that Index.put does not assign itself
FullFields == {"checksums", "size", "mimeType", "locations", "custom"}

\* C20: after Index.put(id, m) with a full record m, Index.get(id) returns
\* the record Index.put returned, equal to m in checksums, size, mimeType,
\* locations and custom.
C20_PutGetRoundTrip ==
    (call.op = "index.put" /\ FullFields \subseteq DOMAIN call.args.metadata) =>
        /\ IndexGet(Idx, call.args.id) = call.ret
        /\ call.ret # None
        /\ \A f \in FullFields : call.ret[1][f] = call.args.metadata[f]

\* C20 witness: a full record was put over an existing record whose
\* locations differed, and Index.get returns the new one.
C20_Witness ==
    /\ call.op = "index.put"
    /\ FullFields \subseteq DOMAIN call.args.metadata
    /\ IndexGet(Idx, call.args.id) = call.ret
    /\ call.ret[1].modified > call.ret[1].created
    /\ Len(call.ret[1].locations) = 1
    /\ PathKey("be1", "b") \in DOMAIN pathDb
    /\ pathDb[PathKey("be1", "b")] = call.args.id

\* C21: Index.get(x) returns the record stored under id x when there is
\* one; else, when x is a path alias whose id has a record, that record;
\* else nothing.
C21_GetResolvesIdThenAlias ==
    call.op = "index.get" =>
        LET x == call.args.idOrPath
        IN call.ret =
              IF x \in DOMAIN db THEN Some(db[x])
              ELSE IF x \in DOMAIN pathDb /\ pathDb[x] \in DOMAIN db
                   THEN Some(db[pathDb[x]])
                   ELSE None

\* C21 witness: Index.get was called with a key that is both the id of a
\* record and a path alias of another id, and returned the record stored
\* under that id.
C21_Witness ==
    /\ call.op = "index.get"
    /\ call.args.idOrPath \in DOMAIN db
    /\ call.args.idOrPath \in DOMAIN pathDb
    /\ pathDb[call.args.idOrPath] \in DOMAIN db
    /\ pathDb[call.args.idOrPath] # call.args.idOrPath
    /\ call.ret = Some(db[call.args.idOrPath])
    /\ call.ret # Some(db[pathDb[call.args.idOrPath]])

\* C22: for every id and path key x, Index.has(x) is true exactly when
\* Index.get(x) returns a record.
C22_HasAgreesWithGet ==
    \A x \in DOMAIN db \cup DOMAIN pathDb \cup {MissingId} :
        IndexHas(Idx, x) <=> (IndexGet(Idx, x) # None)

C23_Step ==
    call'.op = "index.delete" =>
        LET id == call'.args.id
        IN /\ id \notin DOMAIN db'
           /\ IF id \in DOMAIN db THEN call'.ret = Some(TRUE)
              ELSE call'.ret = Some(FALSE) /\ db' = db /\ pathDb' = pathDb
           /\ (call.op = "index.delete" /\ call.args.id = id)
                 => call'.ret = Some(FALSE)

\* C23: Index.delete(id) of an id with no record returns false and changes
\* no record and no alias; of an id with a record it returns true and the
\* record is gone, so that a second delete of that id returns false.
C23_DeleteMissingIsNoOp == [][C23_Step]_vars

\* C23 witness: Index.delete returned false on an index that holds another
\* record and aliases.
C23_Witness ==
    /\ call.op = "index.delete"
    /\ call.ret = Some(FALSE)
    /\ DOMAIN db # {}
    /\ DOMAIN pathDb # {}

\* one file:add handled per item, in order
RECURSIVE ReplayAdds(_, _)
ReplayAdds(m, items) ==
    IF items = <<>> THEN m
    ELSE ReplayAdds(handleFileEvent(m, "file:add", Head(items)), Tail(items))

C24_Step ==
    call'.op = "scan" =>
        \E ts \in TimeSeqs(now, 2 * Len(call'.ret)) :
            ReplayAdds(Start(Idx, files, ts), call'.ret).idx
                = [db |-> db', pathDb |-> pathDb']

\* C24: Stored.scan leaves the records and the aliases as handling one
\* file:add per scanned item (same backend, key, checksums, size and
\* mimeType), in scan order, leaves them.
C24_ScanReplaysAdds == [][C24_Step]_vars

\* C24 witness: a scan returned two items with the same checksums and one
\* record lists both scanned paths.
C24_Witness ==
    /\ call.op = "scan"
    /\ Len(call.ret) = 2
    /\ call.ret[1].checksums # None
    /\ call.ret[1].checksums = call.ret[2].checksums
    /\ LET id == formatId(call.ret[1].checksums[1], primaryChecksum)
       IN /\ ListsIn(db, id, call.ret[1].backend, call.ret[1].key)
          /\ ListsIn(db, id, call.ret[2].backend, call.ret[2].key)

C25_Step ==
    call'.op = "scan" =>
        /\ DOMAIN db \subseteq DOMAIN db'
        /\ DOMAIN pathDb \subseteq DOMAIN pathDb'
        /\ \A id \in DOMAIN db : \A i \in DOMAIN db[id].locations :
              ListsIn(db', id, db[id].locations[i].backend, db[id].locations[i].key)

\* C25: Stored.scan removes no record, no location of any record and no
\* path alias, also for indexed paths that the scanned backend no longer
\* holds.
C25_ScanOnlyAdds == [][C25_Step]_vars

\* C25 witness: after a scan of its backend, a record still lists a path
\* whose file is gone, and the alias of that path still exists.
C25_Witness ==
    /\ call.op = "scan"
    /\ \E id \in DOMAIN db : \E i \in DOMAIN db[id].locations :
          LET loc == db[id].locations[i]
          IN /\ <<loc.backend, loc.key>> \notin DOMAIN files
             /\ Registered(backends, loc.backend)
             /\ call.args.backend \in {None, Some(loc.backend)}
             /\ PathKey(loc.backend, loc.key) \in DOMAIN pathDb

C26_Step ==
    (/\ call'.op = "file:unlink"
     /\ IndexGet(Idx, PathKey(call'.args.backend, call'.args.key)) = None)
    => /\ db' = db
       /\ pathDb' = pathDb
       /\ emitted' = << [type |-> "file:unlink", payload |-> call'.args] >>
       /\ DOMAIN emitted'[1].payload = {"backend", "key"}

\* C26: a file:unlink for a path that resolves to no record leaves every
\* record and every alias unchanged and re-emits one file:unlink carrying
\* the backend's data only (backend and key; no id, checksums, locations).
C26_UnknownUnlinkIsBare == [][C26_Step]_vars

\* C26 witness: a bare file:unlink was re-emitted for a path the index
\* does not resolve, while the index holds a record.
C26_Witness ==
    /\ call.op = "file:unlink"
    /\ emitted = << [type |-> "file:unlink", payload |-> call.args] >>
    /\ "id" \notin DOMAIN emitted[1].payload
    /\ DOMAIN db # {}

\* the backends Stored.put writes to: options.backends, else all registered
PutTargets(args, registry) ==
    IF Len(args.backends) # 0 THEN args.backends ELSE registry

\* C28: after Stored.put(blob, {key}) with at least one registered target,
\* the returned record has locations, Stored.get of its id and of each
\* "<backend>:<key>" it was written to return the bytes that were put, and
\* Stored.stat(id) returns a record with the same id and the bytes' size.
C28_PutThenGetAndStat ==
    (/\ call.op = "put"
     /\ \E i \in DOMAIN PutTargets(call.args, backends) :
           Registered(backends, PutTargets(call.args, backends)[i]))
    => LET meta  == call.ret[1]
           bytes == call.args.blob.content
       IN /\ Len(meta.locations) > 0
          /\ StoredGet(Idx, files, backends, meta.id) = Some(bytes)
          /\ \A i \in DOMAIN meta.locations :
                StoredGet(Idx, files, backends,
                          PathKey(meta.locations[i].backend, meta.locations[i].key))
                    = Some(bytes)
          /\ IndexGet(Idx, meta.id) # None
          /\ IndexGet(Idx, meta.id)[1].id = meta.id
          /\ IndexGet(Idx, meta.id)[1].size = Some(SizeOf(bytes))

\* C28 witness: a put over a key that held other content of another
\* record returned a record with a location, and its bytes are read back.
C28_Witness ==
    /\ call.op = "put"
    /\ Len(call.ret[1].locations) > 0
    /\ StoredGet(Idx, files, backends, call.ret[1].id) = Some(call.args.blob.content)
    /\ \E id \in DOMAIN db :
          /\ id # call.ret[1].id
          /\ ListsIn(db, id, call.ret[1].locations[1].backend, call.ret[1].locations[1].key)

C29_Step ==
    (/\ call'.op = "delete"
     /\ call'.args.backends = None
     /\ IndexGet(Idx, call'.args.idOrKey) # None)
    => LET meta == IndexGet(Idx, call'.args.idOrKey)[1]
       IN /\ \A i \in DOMAIN meta.locations :
                <<meta.locations[i].backend, meta.locations[i].key>> \notin DOMAIN files'
          /\ ~IndexHas([db |-> db', pathDb |-> pathDb'], meta.id)
          /\ Len(emitted') = 1
          /\ emitted'[1].type = "delete"
          /\ Range(call'.ret) =
                {meta.locations[i].backend : i \in
                    {j \in DOMAIN meta.locations :
                        <<meta.locations[j].backend, meta.locations[j].key>>
                            \in DOMAIN files}}

\* C29: Stored.delete(idOrKey) without a backends filter on an indexed
\* record removes the bytes at every location of the record, removes the
\* record so that Stored.has(id) is false, emits one 'delete' event and
\* returns the backends whose bytes it removed.
C29_DeleteRemovesBytesAndRecord == [][C29_Step]_vars

C30_Step ==
    (call'.op = "delete" /\ IndexGet(Idx, call'.args.idOrKey) = None)
    => /\ call'.ret = <<>>
       /\ emitted' = <<>>
       /\ db' = db
       /\ pathDb' = pathDb
       /\ files' = files

C27_Step ==
    (Len(inflight') < Len(inflight))
    => ~(/\ call.op = "file:unlink"
         /\ call.args.backend = call'.args.backend
         /\ call.args.key = call'.args.key
         /\ call'.args.checksums # None
         /\ PathKey(call'.args.backend, call'.args.key) \in DOMAIN pathDb')

\* C27: an add or change of a path whose callback was still computing
\* when a file:unlink of the same path was handled is not applied to the
\* index after that unlink.
C27_PathOrderKept == [][C27_Step]_vars

\* C32: addBackend with a name that is already registered, or with an
\* unknown driver, throws and leaves the backend registry unchanged: every
\* name registered before is still registered, in the same place, and no
\* new name is listed.
C32_Step ==
    (/\ call'.op = "addBackend"
     /\ (Registered(backends, call'.args.name) \/ call'.args.driver # "file"))
    => /\ call'.ret = <<"throws">>
       /\ backends' = backends

C32_FailedAddKeepsRegistry == [][C32_Step]_vars

\* addBackend was called with a registered name and a known driver, and
\* threw
C32_Witness ==
    /\ call.op = "addBackend"
    /\ call.ret = <<"throws">>
    /\ call.args.driver = "file"
    /\ Registered(backends, call.args.name)
    /\ Len(backends) = 2

\* C34: Stored.put with a metadata option merges it into the record's
\* custom mapping: the custom keys an earlier put of the same content
\* stored are still present, with their values, after a later put of that
\* content that does not mention them.
C34_Step ==
    (/\ call'.op = "put"
     /\ call'.ret # None
     /\ call'.ret[1].id \in DOMAIN db
     /\ "custom" \in DOMAIN db[call'.ret[1].id])
    => LET id == call'.ret[1].id
       IN \A k \in DOMAIN db[id].custom \ DOMAIN call'.args.custom :
             /\ k \in DOMAIN db'[id].custom
             /\ db'[id].custom[k] = db[id].custom[k]

C34_PutMergesCustom == [][C34_Step]_vars

\* C35: for a file:change event (with checksums) on a path whose alias
\* resolves to an old record, Stored emits exactly one file:unlink carrying
\* the old id and the old record's checksums, followed by exactly one
\* file:add carrying the new id and the new record's locations as stored
\* in the index; when no old record resolves, only the file:add is emitted.
C35_Step ==
    Reconciled(call', "file:change")
    => LET data  == call'.args
           old   == IndexGet(Idx, PathKey(data.backend, data.key))
           newId == formatId(data.checksums[1], primaryChecksum)
           add   == emitted'[Len(emitted')]
       IN /\ Len(emitted') = IF old = None THEN 1 ELSE 2
          /\ add.type = "file:add"
          /\ add.payload.id = newId
          /\ newId \in DOMAIN db'
          /\ add.payload.locations = db'[newId].locations
          /\ add.payload.backend = data.backend /\ add.payload.key = data.key
          /\ old # None =>
                /\ emitted'[1].type = "file:unlink"
                /\ emitted'[1].payload.id = old[1].id
                /\ emitted'[1].payload.checksums = Some(old[1].checksums)
                /\ emitted'[1].payload.backend = data.backend
                /\ emitted'[1].payload.key = data.key

Supplies(l) ==
    l.synced /\ Registered(backends, l.backend) /\ <<l.backend, l.key>> \in DOMAIN files

\* C36: Stored.get(idOrKey) returns content whenever the resolved record
\* has at least one synced location whose backend is registered and still
\* holds the bytes; it returns null only when no location can supply them.
C36_GetTriesEveryLocation ==
    \A x \in DOMAIN db \cup DOMAIN pathDb :
        LET meta == IndexGet(Idx, x)
        IN (/\ meta # None
            /\ \E i \in DOMAIN LocationsOf(meta[1]) : Supplies(meta[1].locations[i]))
           => StoredGet(Idx, files, backends, x) # None

\* C37: Stored.get(id) for a canonical id returns either null or bytes
\* whose primary checksum equals id, after any sequence of puts, deletes
\* and file events.
C37_GetReturnsAddressedContent ==
    \A id \in DOMAIN db :
        LET got == StoredGet(Idx, files, backends, id)
        IN got # None
           => formatId(checksumBuffer(got[1], configChecksums), primaryChecksum) = id

\* C38: after Stored.delete returns, a location of the resolved record is
\* absent from the index if and only if this call deleted its bytes from
\* its backend: locations whose backend is unregistered or whose deletion
\* did not happen stay indexed, and no location is dropped while its bytes
\* remain stored.
C38_Step ==
    (call'.op = "delete" /\ IndexGet(Idx, call'.args.idOrKey) # None)
    => LET meta == IndexGet(Idx, call'.args.idOrKey)[1]
       IN \A i \in DOMAIN meta.locations :
             LET l == meta.locations[i]
                 f == <<l.backend, l.key>>
             IN ~ListsIn(db', meta.id, l.backend, l.key)
                   <=> (f \in DOMAIN files /\ f \notin DOMAIN files')

C38_DroppedIffBytesDeleted == [][C38_Step]_vars


\* C40: a file:change event for a path whose new checksums yield the id
\* the path is already indexed under leaves that record in place: its
\* created timestamp, its custom metadata and its other locations are the
\* same after the event as before, and the path is still listed in it.
C40_Step ==
    (/\ Reconciled(call', "file:change")
     /\ IndexGet(Idx, PathKey(call'.args.backend, call'.args.key)) # None
     /\ IndexGet(Idx, PathKey(call'.args.backend, call'.args.key))[1].id
           = formatId(call'.args.checksums[1], primaryChecksum))
    => LET data == call'.args
           id   == formatId(data.checksums[1], primaryChecksum)
       IN /\ id \in DOMAIN db'
          /\ db'[id].created = db[id].created
          /\ "custom" \in DOMAIN db[id]
                => "custom" \in DOMAIN db'[id] /\ db'[id].custom = db[id].custom
          /\ Remaining(db'[id].locations, data.backend, data.key)
                = Remaining(db[id].locations, data.backend, data.key)
          /\ ListsIn(db', id, data.backend, data.key)

C40_SameIdChangeKeepsRecord == [][C40_Step]_vars

\* C39: when Stored.put has written content B under key K of a watched
\* backend, over other content A, and the watcher's file:change for K is
\* handled after put's index update, the index lists (backend, K) in B's
\* locations only, alias K resolves to B, and A no longer lists K.
C39_Step ==
    (/\ call.op = "put"
     /\ Reconciled(call', "file:change")
     /\ HasPath(call.ret[1].locations, call'.args.backend, call'.args.key)
     /\ formatId(call'.args.checksums[1], primaryChecksum) = call.ret[1].id
     /\ files' = files)
    => LET b  == call'.args.backend
           k  == call'.args.key
           id == call.ret[1].id
       IN /\ ListsIn(db', id, b, k)
          /\ PathKey(b, k) \in DOMAIN pathDb' /\ pathDb'[PathKey(b, k)] = id
          /\ \A other \in DOMAIN db' \ {id} : ~ListsIn(db', other, b, k)

C39_OverwrittenKeyMovesToNewId == [][C39_Step]_vars

\* C31: every record and every path alias present in the index when
\* Stored.stop closes it is returned unchanged by stat (by id and by path
\* key) after a new Stored instance is opened on the same index path.
C31_Step ==
    call'.op \in {"stop", "open"}
    => LET after == [db |-> db', pathDb |-> pathDb']
       IN /\ \A id \in DOMAIN db : IndexGet(after, id) = Some(db[id])
          /\ \A pk \in DOMAIN pathDb :
                /\ IndexHas(after, pk)
                /\ IndexGet(after, pk) = IndexGet(Idx, pk)

Yielded(it) == IF it = None THEN <<>> ELSE it[1].yielded

\* the record under id is partially written: an Index.put has stored it
\* and has aliases of its locations still to write
PartiallyWritten(id) ==
    /\ Writing
    /\ pending[1].run.ret[1].id = id
    /\ pathDb # pending[1].run.idx.pathDb

\* C33: an enumeration through Index.entries() / Stored.list() that is
\* interleaved with put, delete and reconciliation never reads a partially
\* written record (its record write applied, its alias writes still to
\* come), neither when it opens its range nor when it yields, and yields
\* no id more than once in a pass.
C33_Step ==
    /\ (iter = None /\ iter' # None)
          => \A id \in DOMAIN db : ~PartiallyWritten(id)
    /\ Len(Yielded(iter')) > Len(Yielded(iter))
          => LET id == Yielded(iter')[Len(Yielded(iter'))]
             IN /\ ~PartiallyWritten(id)
                /\ \A i \in DOMAIN Yielded(iter) : Yielded(iter)[i] # id
                /\ iter[1].snapshot = None => id \in DOMAIN db
                /\ iter[1].snapshot # None => id \in DOMAIN iter[1].snapshot[1]

====
